---- MODULE Spec2Model ----
(***************************************************************************)
(* examflask: the three routes of src/app.py (home, serve_pdf, serve_json) *)
(* as a state machine over the two fixed paths and the homepage template.  *)
(* Every library call of a handler (os.path.exists, send_file, abort,      *)
(* render_template) is one atomic step, so that an external process can    *)
(* change the filesystem between the existence check and the read.         *)
(* Requests are plain GETs (no conditional or range headers).              *)
(***************************************************************************)
EXTENDS Integers, Sequences, FiniteSets, TLC

\* ---------------------------------------------------------------- bounds
MaxByte == 1       \* file contents are <<>> or <<b>>, b \in 1..MaxByte
MaxReq == 2        \* request slots (worker threads of the HTTP server)
MaxServed == 1     \* the count of delivered responses saturates here

\* ------------------------------------------------------------ filesystem
PdfPath == "/home/sabbirba10/exam.pdf"
JsonPath == "/home/sabbirba10/exam.json"
Paths == {PdfPath, JsonPath}

Contents == {<<>>} \cup {<<b>> : b \in 1..MaxByte}

\* What a path resolves to: nothing, a directory, or a regular file with a
\* read permission bit and its bytes.
Absent == [kind |-> "absent", mode |-> "-", bytes |-> <<>>]
Dir == [kind |-> "dir", mode |-> "-", bytes |-> <<>>]
File(m, c) == [kind |-> "file", mode |-> m, bytes |-> c]
FileStates == {Absent, Dir} \cup {File(m, c) : m \in {"r", "-"}, c \in Contents}
\* "nothing observed yet" (bookkeeping value, not a state of a path)
NoObs == [kind |-> "none", mode |-> "-", bytes |-> <<>>]

TemplateStates == {"ok", "missing"}

\* ------------------------------------------------------------- responses
Response(s, m, b) == [status |-> s, mimetype |-> m, body |-> b]
NoResponse == Response(0, "", <<>>)
\* abort(404): werkzeug NotFound, rendered by the framework as a 404 page
NotFound == Response(404, "text/html", <<>>)
\* an exception that leaves the handler: the framework's default 500
InternalServerError == Response(500, "text/html", <<>>)

\* Mutant: "if os.path.exists:" (the function object, never called).
exists_uncalled(f) == TRUE

\* Mutant: os.path.isfile in place of os.path.exists.
exists_isfile(f) == f.kind = "file"

\* os.path.exists(path): true for anything the path resolves to, whatever its
\* type or permission bits (it is a stat of the path, not an open).
exists(f) == f.kind # "absent"

\* Mutant: the mimetype argument is dropped (the library's default type).
send_file_octet(f, mimetype) ==
    IF f.kind = "file" /\ f.mode = "r"
    THEN Response(200, "application/octet-stream", f.bytes)
    ELSE InternalServerError

\* Mutant: the read is wrapped in try/except and any error becomes abort(404).
send_file_caught(f, mimetype) ==
    IF f.kind = "file" /\ f.mode = "r"
    THEN Response(200, mimetype, f.bytes)
    ELSE NotFound

\* send_file(path, mimetype=...): stat + open("rb") + read.  A missing file
\* (FileNotFoundError), a directory (IsADirectoryError) or a file without
\* read permission (PermissionError) raises, and nothing in app.py catches.
send_file(f, mimetype) ==
    IF f.kind = "file" /\ f.mode = "r"
    THEN Response(200, mimetype, f.bytes)
    ELSE InternalServerError

\* abort(code)
abort(code) == IF code = 404 THEN NotFound ELSE InternalServerError

\* render_template('index.html'): the markup, or TemplateNotFound -> 500
render_template(t) ==
    IF t = "ok" THEN Response(200, "text/html", <<>>) ELSE InternalServerError

Routes == {"/", "/exam.pdf", "/exam.json"}
FileRoutes == {"/exam.pdf", "/exam.json"}
Requests == 1..MaxReq

VARIABLES
    fs,         \* [Paths -> FileStates]: what each fixed path resolves to (app.py 12, 20)
    template,   \* state of templates/index.html (app.py 8)
    route,      \* route[r]: the URL of request r, "" when the slot is idle (app.py 6, 10, 18)
    pc,         \* pc[r]: "idle", "start", "send", "abort", "done" (app.py 7-24)
    checked,    \* checked[r]: what the path resolved to at os.path.exists (app.py 13, 21)
    readAt,     \* readAt[r]: what the path resolved to at send_file (app.py 14, 22)
    rendered,   \* rendered[r]: the template state at render_template (app.py 8)
    response,   \* response[r]: the response of request r once done
    present,    \* present[r]: the route's path has held a regular file ever since r arrived
    nServed     \* responses delivered so far (saturating)

vars == <<fs, template, route, pc, checked, readAt, rendered, response, present, nServed>>
reqVars == <<route, pc, checked, readAt, rendered, response>>

TypeOK ==
    /\ fs \in [Paths -> FileStates]
    /\ template \in TemplateStates
    /\ route \in [Requests -> Routes \cup {""}]
    /\ pc \in [Requests -> {"idle", "start", "send", "abort", "done"}]
    /\ checked \in [Requests -> FileStates \cup {NoObs}]
    /\ readAt \in [Requests -> FileStates \cup {NoObs}]
    /\ rendered \in [Requests -> TemplateStates \cup {"none"}]
    /\ present \in [Requests -> BOOLEAN]
    /\ nServed \in 0..MaxServed

\* The server starts with no request in flight, on whatever the disk holds.
Init ==
    /\ fs \in [Paths -> FileStates]
    /\ template \in TemplateStates
    /\ route = [r \in Requests |-> ""]
    /\ pc = [r \in Requests |-> "idle"]
    /\ checked = [r \in Requests |-> NoObs]
    /\ readAt = [r \in Requests |-> NoObs]
    /\ rendered = [r \in Requests |-> "none"]
    /\ response = [r \in Requests |-> NoResponse]
    /\ present = [r \in Requests |-> FALSE]
    /\ nServed = 0

\* ------------------------------------------------------------ vocabulary
Done(r) == pc[r] = "done"
OnFileRoute(r) == route[r] \in FileRoutes
PathOf(url) == IF url = "/exam.pdf" THEN PdfPath ELSE JsonPath
OtherPath(url) == IF url = "/exam.pdf" THEN JsonPath ELSE PdfPath
MimeOf(url) == IF url = "/exam.pdf" THEN "application/pdf" ELSE "application/json"
Readable(f) == f.kind = "file" /\ f.mode = "r"

\* ------------------------------------------------------------- dispatch
\* A GET for url arrives and is routed to its handler in slot r.  The
\* single-threaded server takes one request at a time.
accept(r, url) ==
    /\ \A q \in Requests : pc[q] = "idle"
    /\ route' = [route EXCEPT ![r] = url]
    /\ pc' = [pc EXCEPT ![r] = "start"]
    /\ present' = [present EXCEPT ![r] = url \in FileRoutes /\ fs[PathOf(url)].kind = "file"]
    /\ UNCHANGED <<fs, template, checked, readAt, rendered, response, nServed>>

\* The threaded server takes a request whenever a slot is free.
accept_threaded(r, url) ==
    /\ pc[r] = "idle"
    /\ route' = [route EXCEPT ![r] = url]
    /\ pc' = [pc EXCEPT ![r] = "start"]
    /\ present' = [present EXCEPT ![r] = url \in FileRoutes /\ fs[PathOf(url)].kind = "file"]
    /\ UNCHANGED <<fs, template, checked, readAt, rendered, response, nServed>>

\* The response has gone to the client; the slot is free again.
deliver(r) ==
    /\ pc[r] = "done"
    /\ pc' = [pc EXCEPT ![r] = "idle"]
    /\ route' = [route EXCEPT ![r] = ""]
    /\ checked' = [checked EXCEPT ![r] = NoObs]
    /\ readAt' = [readAt EXCEPT ![r] = NoObs]
    /\ rendered' = [rendered EXCEPT ![r] = "none"]
    /\ response' = [response EXCEPT ![r] = NoResponse]
    /\ present' = [present EXCEPT ![r] = FALSE]
    /\ nServed' = IF nServed < MaxServed THEN nServed + 1 ELSE nServed
    /\ UNCHANGED <<fs, template>>

\* -------------------------------------------------------------- handlers
\* Mutant: the homepage refuses to render when the PDF is missing.
home_requires_pdf(r) ==
    /\ pc[r] = "start" /\ route[r] = "/"
    /\ rendered' = [rendered EXCEPT ![r] = template]
    /\ response' = [response EXCEPT ![r] =
                      IF fs[PdfPath].kind = "absent" THEN abort(404)
                      ELSE render_template(template)]
    /\ pc' = [pc EXCEPT ![r] = "done"]
    /\ UNCHANGED <<fs, template, route, checked, readAt, present, nServed>>

\* def home(): return render_template('index.html')
home(r) ==
    /\ pc[r] = "start" /\ route[r] = "/"
    /\ rendered' = [rendered EXCEPT ![r] = template]
    /\ response' = [response EXCEPT ![r] = render_template(template)]
    /\ pc' = [pc EXCEPT ![r] = "done"]
    /\ UNCHANGED <<fs, template, route, checked, readAt, present, nServed>>

\* Mutant: the two branches of the existence check are swapped.
check_inverted(r, path) ==
    /\ pc[r] = "start"
    /\ checked' = [checked EXCEPT ![r] = fs[path]]
    /\ pc' = [pc EXCEPT ![r] = IF exists(fs[path]) THEN "abort" ELSE "send"]
    /\ UNCHANGED <<fs, template, route, readAt, rendered, response, present, nServed>>

\* Mutant: the check is made by opening the path for append, which creates
\* an empty file where there was none.
check_touch(r, path) ==
    /\ pc[r] = "start"
    /\ checked' = [checked EXCEPT ![r] = fs[path]]
    /\ pc' = [pc EXCEPT ![r] = IF exists(fs[path]) THEN "send" ELSE "abort"]
    /\ fs' = [fs EXCEPT ![path] = IF fs[path].kind = "absent" THEN File("r", <<>>) ELSE @]
    /\ UNCHANGED <<template, route, readAt, rendered, response, present, nServed>>

\* if os.path.exists(path): ... else: ...
check(r, path) ==
    /\ pc[r] = "start"
    /\ checked' = [checked EXCEPT ![r] = fs[path]]
    /\ pc' = [pc EXCEPT ![r] = IF exists(fs[path]) THEN "send" ELSE "abort"]
    /\ UNCHANGED <<fs, template, route, readAt, rendered, response, present, nServed>>

\* Mutant: the bytes are taken when the path is checked and served later.
send_cached(r, path, mimetype) ==
    /\ pc[r] = "send"
    /\ readAt' = [readAt EXCEPT ![r] = fs[path]]
    /\ response' = [response EXCEPT ![r] = send_file(checked[r], mimetype)]
    /\ pc' = [pc EXCEPT ![r] = "done"]
    /\ UNCHANGED <<fs, template, route, checked, rendered, present, nServed>>

\* Mutant: path is a module-level global, so a handler may read the path
\* that another request in flight has just assigned.
send_shared(r, path, mimetype) ==
    /\ pc[r] = "send"
    /\ \E p \in {path} \cup {PathOf(route[q]) :
                     q \in {x \in Requests : route[x] \in FileRoutes /\ pc[x] # "done"}} :
          /\ readAt' = [readAt EXCEPT ![r] = fs[p]]
          /\ response' = [response EXCEPT ![r] = send_file(fs[p], mimetype)]
    /\ pc' = [pc EXCEPT ![r] = "done"]
    /\ UNCHANGED <<fs, template, route, checked, rendered, present, nServed>>

\* return send_file(path, mimetype=...)
send(r, path, mimetype) ==
    /\ pc[r] = "send"
    /\ readAt' = [readAt EXCEPT ![r] = fs[path]]
    /\ response' = [response EXCEPT ![r] = send_file(fs[path], mimetype)]
    /\ pc' = [pc EXCEPT ![r] = "done"]
    /\ UNCHANGED <<fs, template, route, checked, rendered, present, nServed>>

\* abort(404)
notfound(r) ==
    /\ pc[r] = "abort"
    /\ response' = [response EXCEPT ![r] = abort(404)]
    /\ pc' = [pc EXCEPT ![r] = "done"]
    /\ UNCHANGED <<fs, template, route, checked, readAt, rendered, present, nServed>>

serve_pdf(r) ==
    /\ route[r] = "/exam.pdf"
    /\ \/ check(r, PdfPath)
       \/ send(r, PdfPath, "application/pdf")
       \/ notfound(r)

\* Mutant: serve_json pasted from serve_pdf with the path left unchanged.
serve_json_pdfpath(r) ==
    /\ route[r] = "/exam.json"
    /\ \/ check(r, PdfPath)
       \/ send(r, PdfPath, "application/json")
       \/ notfound(r)

serve_json(r) ==
    /\ route[r] = "/exam.json"
    /\ \/ check(r, JsonPath)
       \/ send(r, JsonPath, "application/json")
       \/ notfound(r)

\* A handler run to completion with nothing else happening, as a function
\* of the filesystem f and the template state t.
handle(url, f, t) ==
    CASE url = "/" -> render_template(t)
      [] url = "/exam.pdf" ->
            IF exists(f[PdfPath]) THEN send_file(f[PdfPath], "application/pdf")
            ELSE abort(404)
      [] url = "/exam.json" ->
            IF exists(f[JsonPath]) THEN send_file(f[JsonPath], "application/json")
            ELSE abort(404)

\* ----------------------------------------------------------- environment
\* Another process creates, rewrites, chmods, replaces or deletes what a
\* fixed path resolves to.
ext_write(path, s) ==
    /\ s # fs[path]
    /\ fs' = [fs EXCEPT ![path] = s]
    /\ present' = [r \in Requests |->
                      present[r] /\ (PathOf(route[r]) = path => s.kind = "file")]
    /\ UNCHANGED <<template, nServed>> /\ UNCHANGED reqVars

\* The template is removed from, or restored to, the templates folder.
ext_template(t) ==
    /\ t # template
    /\ template' = t
    /\ UNCHANGED <<fs, present, nServed>> /\ UNCHANGED reqVars

Next ==
    \/ \E r \in Requests, url \in Routes : accept(r, url)
    \/ \E r \in Requests : home(r)
    \/ \E r \in Requests : serve_pdf(r)
    \/ \E r \in Requests : serve_json(r)
    \/ \E r \in Requests : deliver(r)
    \/ \E path \in Paths, s \in FileStates : ext_write(path, s)
    \/ \E t \in TemplateStates : ext_template(t)

Spec == Init /\ [][Next]_vars

\* The threaded server on a filesystem nobody else touches.
NextConc ==
    \/ \E r \in Requests, url \in Routes : accept_threaded(r, url)
    \/ \E r \in Requests : home(r)
    \/ \E r \in Requests : serve_pdf(r)
    \/ \E r \in Requests : serve_json(r)
    \/ \E r \in Requests : deliver(r)

SpecConc == Init /\ [][NextConc]_vars

\* =================================================================== claims
CheckMade(r) == checked[r] # NoObs
ReadMade(r) == readAt[r] # NoObs
\* the existence check of r passed: the handler took the send_file branch
Passed(r) == pc[r] = "send" \/ (Done(r) /\ ReadMade(r))
OnHome(r) == route[r] = "/"

\* C1 (as stated): on a file route, if the route's path holds a regular file
\* for the whole request, the response is 200 with the route's content type
\* and the file's bytes.
C1_PresentServed ==
    \A r \in Requests :
        (Done(r) /\ OnFileRoute(r) /\ present[r]) =>
            response[r] = Response(200, MimeOf(route[r]), readAt[r].bytes)

\* C1 (amended): on a file route, if the route's path holds a regular file for
\* the whole request and the file is readable when it is read, the response
\* is 200 with the route's content type and the bytes the file then holds.
C1_ReadableServed ==
    \A r \in Requests :
        (Done(r) /\ OnFileRoute(r) /\ present[r] /\ Readable(readAt[r])) =>
            response[r] = Response(200, MimeOf(route[r]), readAt[r].bytes)

C1_Witness ==
    \E r \in Requests :
        /\ Done(r) /\ route[r] = "/exam.json" /\ present[r]
        /\ Readable(readAt[r]) /\ readAt[r].bytes # <<>>
        /\ response[r].status = 200

\* C2: on a file route, if the path is absent when the existence check is
\* made, the response is 404 and no read of the file is attempted.
C2_AbsentGives404 ==
    \A r \in Requests :
        (Done(r) /\ OnFileRoute(r) /\ checked[r] = Absent) =>
            (response[r].status = 404 /\ ~ReadMade(r))

C2_Witness ==
    \E r \in Requests :
        Done(r) /\ OnFileRoute(r) /\ checked[r] = Absent /\ response[r].status = 404

\* C3 (as stated): GET / always returns 200, whatever the state of the
\* filesystem and whatever requests came before.
C3_HomeAlways200 ==
    \A r \in Requests : (Done(r) /\ OnHome(r)) => response[r].status = 200

\* C3 (amended): GET / returns 200 whenever the template renders, whatever the
\* PDF and JSON paths hold and whatever requests came before; it never answers
\* 404, and answers 500 exactly when rendering the template fails.
C3_Home200IfRendered ==
    \A r \in Requests :
        (Done(r) /\ OnHome(r)) =>
            /\ response[r].status \in {200, 500}
            /\ response[r].status = 200 <=> rendered[r] = "ok"

C3_Witness ==
    \E r \in Requests :
        /\ Done(r) /\ OnHome(r) /\ response[r].status = 200
        /\ fs[PdfPath] = Absent /\ fs[JsonPath] = Absent
        /\ nServed >= 1

\* C4: a read that fails after the existence check passed (the path now
\* missing, a directory, or without read permission) and a template that fails
\* to render both end in 500, never 404 and never 200.
C4_FaultsGive500 ==
    \A r \in Requests :
        Done(r) =>
            /\ (OnFileRoute(r) /\ ReadMade(r) /\ ~Readable(readAt[r]))
                   => response[r].status = 500
            /\ (OnHome(r) /\ rendered[r] = "missing") => response[r].status = 500

\* the file was removed between the existence check and the read
C4_Witness ==
    \E r \in Requests :
        /\ Done(r) /\ OnFileRoute(r)
        /\ Readable(checked[r]) /\ readAt[r] = Absent
        /\ response[r].status = 500

C7_CheckDecides ==
    \A r \in Requests :
        OnFileRoute(r) =>
            /\ (Done(r) /\ response[r].status = 404)
                   => (CheckMade(r) /\ checked[r].kind = "absent" /\ ~ReadMade(r))
            /\ (pc[r] = "send" \/ ReadMade(r))
                   => (CheckMade(r) /\ checked[r].kind # "absent")
            /\ pc[r] = "abort" => (CheckMade(r) /\ checked[r].kind = "absent")

\* a read that failed after a passed check is a 500, not a 404
C7_Witness ==
    \E r \in Requests :
        /\ Done(r) /\ OnFileRoute(r) /\ ReadMade(r)
        /\ checked[r].kind # "absent" /\ readAt[r] = Absent
        /\ response[r].status # 404

\* the response that the observations of request r (the path at the check and
\* at the read, the template at the render) determine
Observed(r) ==
    IF OnHome(r) THEN render_template(rendered[r])
    ELSE IF checked[r].kind = "absent" THEN NotFound
    ELSE send_file(readAt[r], MimeOf(route[r]))

\* C8: no step of the server changes a file or the template, and a response is
\* determined by what the filesystem held while the request was handled, not by
\* the requests served before.
C8_NoHandlerWrites ==
    /\ [][(reqVars' # reqVars) => UNCHANGED <<fs, template>>]_vars
    /\ [](\A r \in Requests : Done(r) => response[r] = Observed(r))

\* a 404 after an earlier request has been served, the path still absent
C8_Witness ==
    \E r \in Requests :
        /\ Done(r) /\ OnFileRoute(r) /\ nServed >= 1
        /\ response[r].status = 404 /\ fs[PathOf(route[r])] = Absent

\* C9: with the filesystem held fixed, every request handled concurrently with
\* others gets the response it would get if handled alone.
C9_ConcurrentAsAlone ==
    \A r \in Requests : Done(r) => response[r] = handle(route[r], fs, template)

\* two concurrent GET /exam.pdf, both answered with the full file
C9_Witness ==
    \E r, q \in Requests :
        /\ r # q /\ Done(r) /\ Done(q)
        /\ route[r] = "/exam.pdf" /\ route[q] = "/exam.pdf"
        /\ fs[PdfPath].bytes # <<>>
        /\ response[r] = Response(200, "application/pdf", fs[PdfPath].bytes)
        /\ response[q] = response[r]

\* C10: the response of a file route is the one the handler gives in every
\* filesystem that agrees on the route's own path, whatever the other path
\* holds.
C10_RoutesIndependent ==
    \A r \in Requests :
        (Done(r) /\ OnFileRoute(r)) =>
            \A s \in FileStates :
                response[r] =
                    handle(route[r], [fs EXCEPT ![OtherPath(route[r])] = s], template)

\* the PDF is served while the JSON path is absent, and the JSON request
\* beside it gets its 404
C10_Witness ==
    \E r, q \in Requests :
        /\ Done(r) /\ route[r] = "/exam.pdf" /\ response[r].status = 200
        /\ Done(q) /\ route[q] = "/exam.json" /\ response[q].status = 404

====
